---- MODULE Spec2Model ----
(***************************************************************************)
(* Model of the SQL importer service (RecaprioSQL/SQLImporter.py).         *)
(*                                                                         *)
(* The import handler, import_data, is modelled step by step.  Each        *)
(* request is served by one worker that opens its own database session.    *)
(* The store is modelled as SQL Server executes the statements the handler *)
(* sends: two tables, an identity counter, row locks held by open          *)
(* transactions (read committed), and the session's transaction count.     *)
(* The driver is a transport: a statement either takes effect as written   *)
(* or raises in the handler.                                               *)
(***************************************************************************)
EXTENDS Integers, Sequences, FiniteSets, TLC

VARIABLES
    props,      \* rows of table ClusterProperties, with the lock/undo information of open transactions
    stats,      \* rows of table ClusterStats, in insertion order
    nextId,     \* next value of the IDENTITY column ClusterProperties.cluster_id
    clock,      \* the store's clock, read by GETDATE()
    pc,         \* pc[w]: position of worker w inside its handler
    req,        \* req[w]: the request body worker w is serving
    idx,        \* idx[w]: position of the for loop over request.clusters
    conn,       \* conn[w]: "none", "open" or "closed": the pyodbc connection of the call
    tran,       \* tran[w]: @@TRANCOUNT of the session
    matched,    \* matched[w]: the row the MERGE of the current cluster matched ({} = NOT MATCHED)
    result,     \* result[w]: the HTTP response of the call
    pre,        \* pre[w]: committed tables when the call started
    opened,     \* opened[w]: sessions acquired by the call
    began,      \* began[w]: BEGIN TRANSACTION statements executed by the call
    execd,      \* execd[w]: for each cluster entry, how often its statement was executed
    faults,     \* faults[w]: driver and store errors the call has met
    log         \* the finished calls, oldest first

vars == <<props, stats, nextId, clock, pc, req, idx, conn, tran, matched,
          result, pre, opened, began, execd, faults, log>>

(***************************************************************************)
(* Bounds                                                                  *)
(***************************************************************************)
MaxCalls == 2       \* calls served in one behaviour

Workers == {1, 2}

(***************************************************************************)
(* Request bodies (the JSON body before validation)                        *)
(***************************************************************************)
\* An Optional field is a set: {} is None / NULL, {v} is the value v.
GoodTimestamp == "2024-01-01T00:00:00Z"
BadTimestamp == "not-a-date"

\* {"cluster_name": n, "is_active": true}: every optional property left out
PropsA(n) ==
    [cluster_name |-> n, environment |-> {}, region |-> {}, owner |-> {},
     description |-> {}, is_active |-> TRUE]
PropsB(n) ==
    [cluster_name |-> n, environment |-> {"dev"}, region |-> {"eu"}, owner |-> {"ops"},
     description |-> {"moved"}, is_active |-> FALSE]

\* Metrics are in hundredths where the column is DECIMAL(p,2): 1250 is 12.50.
StatCpuOnly(ts) ==
    [timestamp |-> ts, cpu_usage |-> {1250}, memory_usage |-> {}, storage_usage |-> {},
     network_throughput |-> {}, active_connections |-> {}, request_count |-> {},
     response_time_ms |-> {}, error_count |-> {}, FreeGHz |-> {}]
StatNoErrorCount(ts) ==
    [timestamp |-> ts, cpu_usage |-> {100}, memory_usage |-> {200}, storage_usage |-> {300},
     network_throughput |-> {400}, active_connections |-> {5}, request_count |-> {6},
     response_time_ms |-> {7}, error_count |-> {}, FreeGHz |-> {900}]

Cluster(p, s) == [properties |-> p, stats |-> s]

ReqEmpty == <<>>
ReqC1A == <<Cluster(PropsA("c1"), <<>>)>>
ReqC1B == <<Cluster(PropsB("c1"), <<>>)>>
ReqScenario == <<Cluster(PropsA("c1"), <<StatCpuOnly(GoodTimestamp)>>)>>
ReqTwoStats ==
    <<Cluster(PropsB("c1"), <<StatCpuOnly(GoodTimestamp), StatCpuOnly(GoodTimestamp)>>)>>
ReqNoErrorCount == <<Cluster(PropsA("c2"), <<StatNoErrorCount(GoodTimestamp)>>)>>
ReqPair == <<Cluster(PropsA("c1"), <<>>), Cluster(PropsA("c2"), <<>>)>>
ReqPairRev == <<Cluster(PropsB("c2"), <<>>), Cluster(PropsB("c1"), <<>>)>>
ReqPairStat ==
    <<Cluster(PropsA("c2"), <<>>), Cluster(PropsA("c1"), <<StatCpuOnly(GoodTimestamp)>>)>>
ReqDupName == <<Cluster(PropsA("c1"), <<>>), Cluster(PropsB("c1"), <<>>)>>
ReqDupNameStats ==
    <<Cluster(PropsA("c1"), <<StatCpuOnly(GoodTimestamp)>>),
      Cluster(PropsB("c1"), <<StatNoErrorCount(GoodTimestamp)>>)>>
ReqBadTimestamp == <<Cluster(PropsA("c1"), <<StatCpuOnly(BadTimestamp)>>)>>

\* the bodies a sequential client sends
Requests ==
    {ReqEmpty, ReqC1A, ReqC1B, ReqScenario, ReqTwoStats, ReqNoErrorCount, ReqPair,
     ReqPairRev, ReqPairStat, ReqDupName, ReqDupNameStats, ReqBadTimestamp}
\* the bodies two concurrent clients send
ConcRequests == {ReqC1A, ReqC1B, ReqPairRev}

(***************************************************************************)
(* Payload validation: the pydantic models of the request                  *)
(***************************************************************************)
\* a parser that takes any string
ParseDatetimeAny(s) == [ok |-> TRUE, value |-> [datetime |-> s]]

\* datetime parsing of ClusterStat.timestamp: a parsed value is a datetime object,
\* not a string
ParseDatetime(s) ==
    IF s = GoodTimestamp THEN [ok |-> TRUE, value |-> [datetime |-> s]]
    ELSE [ok |-> FALSE, value |-> [datetime |-> ""]]

ClusterStat(raw) == [raw EXCEPT !.timestamp = ParseDatetime(raw.timestamp).value]

ClusterData(raw) ==
    [properties |-> raw.properties,
     stats |-> [i \in 1..Len(raw.stats) |-> ClusterStat(raw.stats[i])]]

\* ImportRequest(body): the typed request, or a validation error for the whole body
ValidBody(body) ==
    \A i \in 1..Len(body) :
        \A j \in 1..Len(body[i].stats) : ParseDatetime(body[i].stats[j].timestamp).ok

ImportRequest(body) == [i \in 1..Len(body) |-> ClusterData(body[i])]

(***************************************************************************)
(* json.dumps of the dicts the handler builds                              *)
(***************************************************************************)
\* cluster.properties.dict() holds str, None and bool values only
properties_json(cluster) == [ok |-> TRUE, doc |-> cluster.properties]

\* stat.dict() holds the datetime object of ClusterStat.timestamp, which the
\* default JSON encoder does not serialize: json.dumps raises TypeError
JsonSerializable(stat) == "datetime" \notin DOMAIN stat.timestamp

stats_json(cluster) ==
    IF \A j \in 1..Len(cluster.stats) : JsonSerializable(cluster.stats[j])
    THEN [ok |-> TRUE, doc |-> cluster.stats]
    ELSE [ok |-> FALSE, doc |-> <<>>]

(***************************************************************************)
(* The store: tables ClusterProperties and ClusterStats                    *)
(***************************************************************************)
\* A ClusterProperties row carries, next to its columns, the transaction that holds
\* its lock (by, 0 = none), whether that transaction inserted it (fresh), and the
\* column values to restore when that transaction rolls back (undo).
Mutable(r) ==
    [environment |-> r.environment, region |-> r.region, owner |-> r.owner,
     description |-> r.description, is_active |-> r.is_active,
     last_updated |-> r.last_updated]

Columns(r) ==
    [cluster_id |-> r.cluster_id, cluster_name |-> r.cluster_name,
     environment |-> r.environment, region |-> r.region, owner |-> r.owner,
     description |-> r.description, is_active |-> r.is_active,
     last_updated |-> r.last_updated]

Restored(r) ==
    IF r.undo = {} THEN r
    ELSE LET u == CHOOSE x \in r.undo : TRUE
         IN [r EXCEPT !.environment = u.environment, !.region = u.region,
                      !.owner = u.owner, !.description = u.description,
                      !.is_active = u.is_active, !.last_updated = u.last_updated]

Unlocked(r) == [r EXCEPT !.by = 0, !.fresh = FALSE, !.undo = {}]

\* the committed rows: what a new session reads
CommittedProps(P) == {Columns(Restored(r)) : r \in {x \in P : ~(x.by # 0 /\ x.fresh)}}
CommittedStats(S) == SelectSeq(S, LAMBDA r : r.by = 0)
Committed(P, S) == [props |-> CommittedProps(P), stats |-> CommittedStats(S)]

\* a COMMIT that leaves the rows of the transaction as they are
CommitPropsLost(P, w) == P

\* COMMIT TRANSACTION of session w
CommitProps(P, w) == {IF r.by = w THEN Unlocked(r) ELSE r : r \in P}
CommitStats(S, w) == [i \in 1..Len(S) |-> IF S[i].by = w THEN [S[i] EXCEPT !.by = 0] ELSE S[i]]

\* a ROLLBACK that keeps what the transaction wrote
RollbackPropsKept(P, w) == {IF r.by = w THEN Unlocked(r) ELSE r : r \in P}

\* ROLLBACK TRANSACTION of session w (also what the store does when a session with an
\* open transaction disconnects)
RollbackProps(P, w) ==
    {IF r.by = w THEN Unlocked(Restored(r)) ELSE r : r \in {x \in P : ~(x.by = w /\ x.fresh)}}
RollbackStats(S, w) == SelectSeq(S, LAMBDA r : r.by # w)

\* OPENJSON(@properties_json) WITH (...): the source row of the MERGE
MergeSource(doc) ==
    [name |-> doc.cluster_name, environment |-> doc.environment, region |-> doc.region,
     owner |-> doc.owner, description |-> doc.description, is_active |-> doc.is_active]

\* an ON clause that never matches
MergeTargetNone(P, name) == {}

\* ON target.cluster_name = source.name
MergeTarget(P, name) == {r \in P : r.cluster_name = name}

\* WHEN MATCHED THEN UPDATE SET ...
MergeUpdate(r, source, now, w) ==
    [r EXCEPT !.environment = source.environment, !.region = source.region,
              !.owner = source.owner, !.description = source.description,
              !.is_active = source.is_active, !.last_updated = {now},
              !.by = w,
              !.undo = IF r.by = w THEN r.undo ELSE {Mutable(r)}]

\* WHEN NOT MATCHED THEN INSERT (...) VALUES (...): cluster_id is the identity value,
\* last_updated is not in the column list
MergeInsert(source, id, w) ==
    [cluster_id |-> id, cluster_name |-> source.name,
     environment |-> source.environment, region |-> source.region,
     owner |-> source.owner, description |-> source.description,
     is_active |-> source.is_active, last_updated |-> {},
     by |-> w, fresh |-> TRUE, undo |-> {}]

\* SET @cluster_id = SCOPE_IDENTITY(): the last identity value this batch inserted,
\* NULL when the MERGE inserted no row
SCOPE_IDENTITY(insertedId) == insertedId

\* INSERT INTO ClusterStats (...) SELECT @cluster_id, CONVERT(DATETIME, timestamp), ...
\* FROM OPENJSON(@stats_json) WITH (...): one row per element, absent metric = NULL
StatsRow(cluster_id, stat, w) ==
    [cluster_id |-> cluster_id, timestamp |-> stat.timestamp,
     cpu_usage |-> stat.cpu_usage, memory_usage |-> stat.memory_usage,
     storage_usage |-> stat.storage_usage, network_throughput |-> stat.network_throughput,
     active_connections |-> stat.active_connections, request_count |-> stat.request_count,
     response_time_ms |-> stat.response_time_ms, error_count |-> stat.error_count,
     FreeGHz |-> stat.FreeGHz, by |-> w]

\* an insert that replaces the rows of the table
InsertStatsReplace(S, cluster_id, doc, w) ==
    [j \in 1..Len(doc) |-> StatsRow(cluster_id, doc[j], w)]

InsertStats(S, cluster_id, doc, w) ==
    S \o [j \in 1..Len(doc) |-> StatsRow(cluster_id, doc[j], w)]

(***************************************************************************)
(* Responses                                                               *)
(***************************************************************************)
NoResponse == [status |-> 0, detail |-> "", count |-> 0]
\* return {"status": "success", "message": f"Imported {len(request.clusters)} ..."}
Success(n) == [status |-> 201, detail |-> "success", count |-> n]
\* the framework's answer to a body that is not an ImportRequest
ValidationError == [status |-> 422, detail |-> "validation error", count |-> 0]
\* raise HTTPException(status_code=500, detail="Database connection failed: ...")
ConnectionFailed == [status |-> 500, detail |-> "Database connection failed", count |-> 0]
\* raise HTTPException(status_code=500, detail="Import failed: ...")
ImportFailed == [status |-> 500, detail |-> "Import failed", count |-> 0]
\* an exception that is no HTTPException leaves the handler
ServerError == [status |-> 500, detail |-> "Internal Server Error", count |-> 0]
\* return {"status": "healthy", "database": "connected"}
Healthy == [status |-> 200, detail |-> "healthy", count |-> 0]
\* raise HTTPException(status_code=503, detail="Service unhealthy: ...")
Unhealthy == [status |-> 503, detail |-> "Service unhealthy", count |-> 0]

(***************************************************************************)
(* Initial state                                                           *)
(***************************************************************************)
\* every worker is idle
Idle ==
    /\ clock = 0
    /\ pc = [w \in Workers |-> "idle"]
    /\ req = [w \in Workers |-> <<>>]
    /\ idx = [w \in Workers |-> 0]
    /\ conn = [w \in Workers |-> "none"]
    /\ tran = [w \in Workers |-> 0]
    /\ matched = [w \in Workers |-> {}]
    /\ result = [w \in Workers |-> NoResponse]
    /\ pre = [w \in Workers |-> Committed({}, <<>>)]
    /\ opened = [w \in Workers |-> 0]
    /\ began = [w \in Workers |-> 0]
    /\ execd = [w \in Workers |-> <<>>]
    /\ faults = [w \in Workers |-> {}]
    /\ log = <<>>

\* the service starts against empty tables
Init ==
    /\ props = {}
    /\ stats = <<>>
    /\ nextId = 1
    /\ Idle

\* The store outlives the service: the service starts against tables that hold the
\* row of c1 and two stats rows attached to it.
StoredProps ==
    {[cluster_id |-> 1, cluster_name |-> "c1", environment |-> {"dev"}, region |-> {"eu"},
      owner |-> {"ops"}, description |-> {"moved"}, is_active |-> FALSE,
      last_updated |-> {}, by |-> 0, fresh |-> FALSE, undo |-> {}]}
StoredStats ==
    <<StatsRow({1}, StatCpuOnly(GoodTimestamp), 0),
      StatsRow({1}, StatNoErrorCount(GoodTimestamp), 0)>>

InitStored ==
    /\ props = StoredProps
    /\ stats = StoredStats
    /\ nextId = 2
    /\ Idle

\* positions inside health_check
ProbePcs == {"probe connect", "probe cursor", "probe query", "probe done"}

\* the workers that serve an import call
Running == {w \in Workers : pc[w] \notin {"idle"} \cup ProbePcs}

storeVars == <<props, stats, nextId>>
callVars == <<req, pre, opened, began, execd>>

(***************************************************************************)
(* POST /import: import_data                                               *)
(***************************************************************************)
\* The framework parses the body into request: ImportRequest before it calls the
\* handler; a body that fails validation is answered without calling it.
Receive(w, bodies) ==
    /\ pc[w] = "idle"
    /\ Len(log) + Cardinality(Running) < MaxCalls
    /\ \E body \in bodies :
        /\ req' = [req EXCEPT ![w] = body]
        /\ execd' = [execd EXCEPT ![w] = [i \in 1..Len(body) |-> 0]]
        /\ IF ValidBody(body)
           THEN /\ pc' = [pc EXCEPT ![w] = "connect"]
                /\ UNCHANGED result
           ELSE /\ pc' = [pc EXCEPT ![w] = "done"]
                /\ result' = [result EXCEPT ![w] = ValidationError]
    /\ pre' = [pre EXCEPT ![w] = Committed(props, stats)]
    /\ clock' = clock + 1
    /\ UNCHANGED <<storeVars, idx, conn, tran, matched, opened, began, faults, log>>

\* conn = get_db_connection(): pyodbc.connect, or HTTPException 500
get_db_connection(w) ==
    /\ pc[w] = "connect"
    /\ \E ok \in BOOLEAN :
        IF ok
        THEN /\ conn' = [conn EXCEPT ![w] = "open"]
             /\ opened' = [opened EXCEPT ![w] = @ + 1]
             /\ pc' = [pc EXCEPT ![w] = "cursor"]
             /\ UNCHANGED <<result, faults>>
        ELSE /\ faults' = [faults EXCEPT ![w] = @ \cup {"connect"}]
             /\ result' = [result EXCEPT ![w] = ConnectionFailed]
             /\ pc' = [pc EXCEPT ![w] = "done"]
             /\ UNCHANGED <<conn, opened>>
    /\ UNCHANGED <<storeVars, clock, req, idx, tran, matched, pre, began, execd, log>>

\* cursor = conn.cursor(): outside the try block, so an error leaves the handler at once
Cursor(w) ==
    /\ pc[w] = "cursor"
    /\ \E ok \in BOOLEAN :
        IF ok
        THEN /\ pc' = [pc EXCEPT ![w] = "begin"]
             /\ UNCHANGED <<result, faults>>
        ELSE /\ faults' = [faults EXCEPT ![w] = @ \cup {"cursor"}]
             /\ result' = [result EXCEPT ![w] = ServerError]
             /\ pc' = [pc EXCEPT ![w] = "done"]
    /\ UNCHANGED <<storeVars, clock, callVars, idx, conn, tran, matched, log>>

\* cursor.execute("BEGIN TRANSACTION")
Begin(w) ==
    /\ pc[w] = "begin"
    /\ \E ok \in BOOLEAN :
        IF ok
        THEN /\ tran' = [tran EXCEPT ![w] = @ + 1]
             /\ began' = [began EXCEPT ![w] = @ + 1]
             /\ idx' = [idx EXCEPT ![w] = 1]
             /\ pc' = [pc EXCEPT ![w] = "loop"]
             /\ UNCHANGED faults
        ELSE /\ faults' = [faults EXCEPT ![w] = @ \cup {"begin"}]
             /\ pc' = [pc EXCEPT ![w] = "except"]
             /\ UNCHANGED <<tran, began, idx>>
    /\ UNCHANGED <<storeVars, clock, req, conn, matched, result, pre, opened, execd, log>>

\* the cluster entry the loop is at
Entry(w) == ImportRequest(req[w])[idx[w]]

\* a loop that leaves out the last entry
LoopSkipLast(w) ==
    /\ pc[w] = "loop"
    /\ IF idx[w] >= Len(req[w])
       THEN pc' = [pc EXCEPT ![w] = "commit"]
       ELSE IF properties_json(Entry(w)).ok /\ stats_json(Entry(w)).ok
            THEN pc' = [pc EXCEPT ![w] = "merge"]
            ELSE pc' = [pc EXCEPT ![w] = "except"]
    /\ UNCHANGED <<storeVars, clock, callVars, idx, conn, tran, matched, result, faults, log>>

\* a loop that takes a request without clusters for an error
LoopRejectEmpty(w) ==
    /\ pc[w] = "loop"
    /\ IF Len(req[w]) = 0
       THEN pc' = [pc EXCEPT ![w] = "except"]
       ELSE IF idx[w] > Len(req[w])
            THEN pc' = [pc EXCEPT ![w] = "commit"]
            ELSE IF properties_json(Entry(w)).ok /\ stats_json(Entry(w)).ok
                 THEN pc' = [pc EXCEPT ![w] = "merge"]
                 ELSE pc' = [pc EXCEPT ![w] = "except"]
    /\ UNCHANGED <<storeVars, clock, callVars, idx, conn, tran, matched, result, faults, log>>

\* for cluster in request.clusters: properties_json = ...; stats_json = ...
Loop(w) ==
    /\ pc[w] = "loop"
    /\ IF idx[w] > Len(req[w])
       THEN pc' = [pc EXCEPT ![w] = "commit"]
       ELSE IF properties_json(Entry(w)).ok /\ stats_json(Entry(w)).ok
            THEN pc' = [pc EXCEPT ![w] = "merge"]
            ELSE pc' = [pc EXCEPT ![w] = "except"]
    /\ UNCHANGED <<storeVars, clock, callVars, idx, conn, tran, matched, result, faults, log>>

\* cursor.execute(<cluster statement>), first half: the MERGE reads the target rows
\* with the source's name.  Under read committed it waits for a row another open
\* transaction has written, and locks the row it matched; a name that is not there
\* leaves nothing locked.
MergeMatch(w) ==
    /\ pc[w] = "merge"
    /\ execd' = [execd EXCEPT ![w][idx[w]] = @ + 1]
    /\ \E ok \in BOOLEAN :
        IF ok
        THEN LET source == MergeSource(properties_json(Entry(w)).doc)
                 target == MergeTarget(props, source.name)
             IN /\ \A r \in target : r.by \in {0, w}
                /\ matched' = [matched EXCEPT ![w] = {r.cluster_id : r \in target}]
                /\ props' = {IF r \in target /\ r.by = 0
                             THEN [r EXCEPT !.by = w, !.undo = {Mutable(r)}]
                             ELSE r : r \in props}
                /\ pc' = [pc EXCEPT ![w] = "write"]
                /\ UNCHANGED faults
        ELSE /\ faults' = [faults EXCEPT ![w] = @ \cup {"merge"}]
             /\ pc' = [pc EXCEPT ![w] = "except"]
             /\ UNCHANGED <<matched, props>>
    /\ UNCHANGED <<stats, nextId, clock, req, idx, conn, tran, result, pre, opened, began, log>>

\* the unique key on ClusterProperties.cluster_name
UniqueViolation(P, name) == MergeTarget(P, name) # {}

\* cursor.execute(<cluster statement>), second half: the MERGE writes (update of the
\* matched row, or insert), then SET @cluster_id and the INSERT INTO ClusterStats.
MergeWrite(w) ==
    /\ pc[w] = "write"
    /\ LET source == MergeSource(properties_json(Entry(w)).doc)
           doc == stats_json(Entry(w)).doc
           target == MergeTarget(props, source.name)
       IN IF matched[w] # {}
          THEN \E ok \in BOOLEAN :
                /\ props' = {IF r.cluster_id \in matched[w]
                             THEN MergeUpdate(r, source, clock, w) ELSE r : r \in props}
                /\ nextId' = nextId
                /\ IF ok
                   THEN /\ stats' = InsertStats(stats, SCOPE_IDENTITY({}), doc, w)
                        /\ idx' = [idx EXCEPT ![w] = @ + 1]
                        /\ pc' = [pc EXCEPT ![w] = "loop"]
                        /\ UNCHANGED faults
                   ELSE /\ faults' = [faults EXCEPT ![w] = @ \cup {"insert"}]
                        /\ pc' = [pc EXCEPT ![w] = "except"]
                        /\ UNCHANGED <<stats, idx>>
          ELSE /\ \A r \in target : r.by \in {0, w}
               /\ IF UniqueViolation(props, source.name)
                  THEN /\ faults' = [faults EXCEPT ![w] = @ \cup {"duplicate key"}]
                       /\ pc' = [pc EXCEPT ![w] = "except"]
                       /\ UNCHANGED <<props, stats, nextId, idx>>
                  ELSE \E ok \in BOOLEAN :
                        /\ props' = props \cup {MergeInsert(source, nextId, w)}
                        /\ nextId' = nextId + 1
                        /\ IF ok
                           THEN /\ stats' = InsertStats(stats, SCOPE_IDENTITY({nextId}), doc, w)
                                /\ idx' = [idx EXCEPT ![w] = @ + 1]
                                /\ pc' = [pc EXCEPT ![w] = "loop"]
                                /\ UNCHANGED faults
                           ELSE /\ faults' = [faults EXCEPT ![w] = @ \cup {"insert"}]
                                /\ pc' = [pc EXCEPT ![w] = "except"]
                                /\ UNCHANGED <<stats, idx>>
    /\ matched' = [matched EXCEPT ![w] = {}]
    /\ UNCHANGED <<clock, callVars, conn, tran, result, log>>

\* cursor.execute("COMMIT TRANSACTION")
Commit(w) ==
    /\ pc[w] = "commit"
    /\ \E ok \in BOOLEAN :
        IF ok
        THEN /\ props' = CommitProps(props, w)
             /\ stats' = CommitStats(stats, w)
             /\ tran' = [tran EXCEPT ![w] = 0]
             /\ pc' = [pc EXCEPT ![w] = "updatestats"]
             /\ UNCHANGED faults
        ELSE /\ faults' = [faults EXCEPT ![w] = @ \cup {"commit"}]
             /\ pc' = [pc EXCEPT ![w] = "except"]
             /\ UNCHANGED <<props, stats, tran>>
    /\ UNCHANGED <<nextId, clock, callVars, idx, conn, matched, result, log>>

\* cursor.execute("EXEC sp_updatestats"), then return {"status": "success", ...}
UpdateStats(w) ==
    /\ pc[w] = "updatestats"
    /\ \E ok \in BOOLEAN :
        IF ok
        THEN /\ result' = [result EXCEPT ![w] = Success(Len(req[w]))]
             /\ pc' = [pc EXCEPT ![w] = "finally"]
             /\ UNCHANGED faults
        ELSE /\ faults' = [faults EXCEPT ![w] = @ \cup {"updatestats"}]
             /\ pc' = [pc EXCEPT ![w] = "except"]
             /\ UNCHANGED result
    /\ UNCHANGED <<storeVars, clock, callVars, idx, conn, tran, matched, log>>

\* an except block that starts the transaction over, once, after the rollback
ExceptRetry(w) ==
    /\ pc[w] = "except"
    /\ props' = IF tran[w] > 0 THEN RollbackProps(props, w) ELSE props
    /\ stats' = IF tran[w] > 0 THEN RollbackStats(stats, w) ELSE stats
    /\ tran' = [tran EXCEPT ![w] = 0]
    /\ IF began[w] < 2
       THEN /\ pc' = [pc EXCEPT ![w] = "begin"]
            /\ UNCHANGED result
       ELSE /\ pc' = [pc EXCEPT ![w] = "finally"]
            /\ result' = [result EXCEPT ![w] = ImportFailed]
    /\ UNCHANGED <<nextId, clock, callVars, idx, conn, matched, faults, log>>

\* except Exception: cursor.execute("IF @@TRANCOUNT > 0 ROLLBACK TRANSACTION"), then
\* raise HTTPException(500, "Import failed").  An error of the rollback statement
\* leaves the handler in place of the HTTPException.
Except(w) ==
    /\ pc[w] = "except"
    /\ \E ok \in BOOLEAN :
        IF ok
        THEN /\ props' = IF tran[w] > 0 THEN RollbackProps(props, w) ELSE props
             /\ stats' = IF tran[w] > 0 THEN RollbackStats(stats, w) ELSE stats
             /\ tran' = [tran EXCEPT ![w] = 0]
             /\ result' = [result EXCEPT ![w] = ImportFailed]
             /\ UNCHANGED faults
        ELSE /\ faults' = [faults EXCEPT ![w] = @ \cup {"rollback"}]
             /\ result' = [result EXCEPT ![w] = ServerError]
             /\ UNCHANGED <<props, stats, tran>>
    /\ pc' = [pc EXCEPT ![w] = "finally"]
    /\ UNCHANGED <<nextId, clock, callVars, idx, conn, matched, log>>

\* finally: cursor.close(); conn.close().  Closing a session ends its open
\* transaction by rolling it back.
Finally(w) ==
    /\ pc[w] = "finally"
    /\ props' = IF tran[w] > 0 THEN RollbackProps(props, w) ELSE props
    /\ stats' = IF tran[w] > 0 THEN RollbackStats(stats, w) ELSE stats
    /\ tran' = [tran EXCEPT ![w] = 0]
    /\ conn' = [conn EXCEPT ![w] = "closed"]
    /\ pc' = [pc EXCEPT ![w] = "done"]
    /\ UNCHANGED <<nextId, clock, callVars, idx, matched, result, faults, log>>

\* the response reaches the caller; the worker is free for the next request
Respond(w) ==
    /\ pc[w] = "done"
    /\ log' = Append(log, [body |-> req[w], result |-> result[w],
                           clean |-> faults[w] = {},
                           post |-> Committed(props, stats)])
    /\ pc' = [pc EXCEPT ![w] = "idle"]
    /\ req' = [req EXCEPT ![w] = <<>>]
    /\ idx' = [idx EXCEPT ![w] = 0]
    /\ conn' = [conn EXCEPT ![w] = "none"]
    /\ result' = [result EXCEPT ![w] = NoResponse]
    /\ pre' = [pre EXCEPT ![w] = Committed({}, <<>>)]
    /\ opened' = [opened EXCEPT ![w] = 0]
    /\ began' = [began EXCEPT ![w] = 0]
    /\ execd' = [execd EXCEPT ![w] = <<>>]
    /\ faults' = [faults EXCEPT ![w] = {}]
    /\ UNCHANGED <<storeVars, clock, tran, matched>>

import_data(w) ==
    \/ get_db_connection(w)
    \/ Cursor(w)
    \/ Begin(w)
    \/ Loop(w)
    \/ MergeMatch(w)
    \/ MergeWrite(w)
    \/ Commit(w)
    \/ UpdateStats(w)
    \/ Except(w)
    \/ Finally(w)
    \/ Respond(w)

(***************************************************************************)
(* GET /health: health_check                                               *)
(***************************************************************************)
probeFrame == <<storeVars, clock, callVars, idx, tran, matched, log>>

HealthStart(w) ==
    /\ pc[w] = "idle"
    /\ pc' = [pc EXCEPT ![w] = "probe connect"]
    /\ UNCHANGED <<probeFrame, conn, result, faults>>

\* conn = get_db_connection(): its HTTPException 500 is caught by except Exception
\* and answered as 503
HealthConnect(w) ==
    /\ pc[w] = "probe connect"
    /\ \E ok \in BOOLEAN :
        IF ok
        THEN /\ conn' = [conn EXCEPT ![w] = "open"]
             /\ pc' = [pc EXCEPT ![w] = "probe cursor"]
             /\ UNCHANGED <<result, faults>>
        ELSE /\ faults' = [faults EXCEPT ![w] = @ \cup {"connect"}]
             /\ result' = [result EXCEPT ![w] = Unhealthy]
             /\ pc' = [pc EXCEPT ![w] = "probe done"]
             /\ UNCHANGED conn
    /\ UNCHANGED probeFrame

\* cursor = conn.cursor(): the except block raises 503 and closes nothing
HealthCursor(w) ==
    /\ pc[w] = "probe cursor"
    /\ \E ok \in BOOLEAN :
        IF ok
        THEN /\ pc' = [pc EXCEPT ![w] = "probe query"]
             /\ UNCHANGED <<result, faults>>
        ELSE /\ faults' = [faults EXCEPT ![w] = @ \cup {"cursor"}]
             /\ result' = [result EXCEPT ![w] = Unhealthy]
             /\ pc' = [pc EXCEPT ![w] = "probe done"]
    /\ UNCHANGED <<probeFrame, conn>>

\* cursor.execute("SELECT 1"); cursor.close(); conn.close(); return healthy.
\* When the query raises, the except block raises 503 and closes nothing.
HealthQuery(w) ==
    /\ pc[w] = "probe query"
    /\ \E ok \in BOOLEAN :
        IF ok
        THEN /\ conn' = [conn EXCEPT ![w] = "closed"]
             /\ result' = [result EXCEPT ![w] = Healthy]
             /\ UNCHANGED faults
        ELSE /\ faults' = [faults EXCEPT ![w] = @ \cup {"query"}]
             /\ result' = [result EXCEPT ![w] = Unhealthy]
             /\ UNCHANGED conn
    /\ pc' = [pc EXCEPT ![w] = "probe done"]
    /\ UNCHANGED probeFrame

\* the response of the probe reaches the caller
HealthRespond(w) ==
    /\ pc[w] = "probe done"
    /\ pc' = [pc EXCEPT ![w] = "idle"]
    /\ conn' = [conn EXCEPT ![w] = "none"]
    /\ result' = [result EXCEPT ![w] = NoResponse]
    /\ faults' = [faults EXCEPT ![w] = {}]
    /\ UNCHANGED probeFrame

health_check(w) ==
    \/ HealthStart(w)
    \/ HealthConnect(w)
    \/ HealthCursor(w)
    \/ HealthQuery(w)
    \/ HealthRespond(w)

(***************************************************************************)
(* Specifications                                                          *)
(***************************************************************************)
\* two clients at once
Next == \E w \in Workers : Receive(w, ConcRequests) \/ import_data(w)
Spec == Init /\ [][Next]_vars

\* one client, one call after the other
NextSeq == Receive(1, Requests) \/ import_data(1)
SpecSeq == Init /\ [][NextSeq]_vars

\* one client, against tables that already hold rows
SpecStored == InitStored /\ [][NextSeq]_vars

\* one client that imports, and a monitor that probes /health meanwhile
NextHealth == NextSeq \/ health_check(2)
SpecHealth == Init /\ [][NextHealth]_vars

(***************************************************************************)
(* Properties                                                              *)
(***************************************************************************)
Returned(w) == pc[w] = "done"

NamesOf(body) == {body[i].properties.cluster_name : i \in 1..Len(body)}

\* the last entry of the request with name n
LastEntry(body, n) ==
    body[CHOOSE i \in 1..Len(body) :
            /\ body[i].properties.cluster_name = n
            /\ \A j \in (i + 1)..Len(body) : body[j].properties.cluster_name # n]

RowsNamed(P, n) == {r \in P : r.cluster_name = n}

HoldsValues(r, p) ==
    /\ r.environment = p.environment
    /\ r.region = p.region
    /\ r.owner = p.owner
    /\ r.description = p.description
    /\ r.is_active = p.is_active

RECURSIVE StatCount(_, _)
StatCount(body, i) == IF i = 0 THEN 0 ELSE Len(body[i].stats) + StatCount(body, i - 1)

\* C1 (atomicity): when a call has returned after the statement of cluster k, 1 < k <= N,
\* failed, the committed tables are what they were when the call started: no row of
\* clusters 1..N is committed.
C1_Atomicity ==
    \A w \in Workers :
        (Returned(w) /\ 1 < idx[w] /\ idx[w] <= Len(req[w]))
            => Committed(props, stats) = pre[w]

\* cluster 2 failed in the store after cluster 1 had been written and the MERGE of
\* cluster 2 had made its change
C1_Witness ==
    /\ Returned(1)
    /\ idx[1] = 2
    /\ "insert" \in faults[1]
    /\ result[1] = ImportFailed

\* C2 (successful import is committed): when a call has returned success, after its
\* session was closed, every cluster name of the request has a committed row holding
\* the values of the request, and the committed stats have grown by the stats of the
\* request.
C2_SuccessCommitted ==
    \A w \in Workers :
        (Returned(w) /\ result[w].status = 201)
            => /\ conn[w] = "closed"
               /\ \A n \in NamesOf(req[w]) :
                    \E r \in CommittedProps(props) :
                        /\ r.cluster_name = n
                        /\ HoldsValues(r, LastEntry(req[w], n).properties)
               /\ Len(CommittedStats(stats)) =
                    Len(pre[w].stats) + StatCount(req[w], Len(req[w]))

C2_Witness ==
    /\ Returned(1)
    /\ result[1] = Success(2)
    /\ conn[1] = "closed"
    /\ Cardinality(CommittedProps(props)) = 2

Succeeded(e) == e.result.status = 201

\* C3 (idempotent identity): a cluster_name keeps its cluster_id over every sequence of
\* calls, and after two successive successful calls that both carry a name there is
\* exactly one committed row of that name, holding the second call's values.
C3_IdempotentIdentity ==
    /\ \A i \in 1..Len(log) : \A j \in (i + 1)..Len(log) :
        \A r1 \in log[i].post.props : \A r2 \in log[j].post.props :
            r1.cluster_name = r2.cluster_name => r1.cluster_id = r2.cluster_id
    /\ \A i \in 1..(Len(log) - 1) :
        (Succeeded(log[i]) /\ Succeeded(log[i + 1]))
            => \A n \in NamesOf(log[i].body) \cap NamesOf(log[i + 1].body) :
                \E r \in log[i + 1].post.props :
                    /\ RowsNamed(log[i + 1].post.props, n) = {r}
                    /\ HoldsValues(r, LastEntry(log[i + 1].body, n).properties)

\* c1 imported with one set of values, then with another: the second call updated
C3_Witness ==
    /\ Len(log) >= 2
    /\ log[1].body = ReqC1A /\ Succeeded(log[1])
    /\ log[2].body = ReqC1B /\ Succeeded(log[2])
    /\ \E r \in log[2].post.props : r.cluster_name = "c1" /\ r.last_updated # {}

\* the committed stats rows of the properties row named n
StatsOf(db, n) ==
    SelectSeq(db.stats, LAMBDA s : \E r \in db.props :
                                    r.cluster_name = n /\ s.cluster_id = {r.cluster_id})

\* C4 (stat accumulation): the same body, one cluster with M >= 1 stats, imported by two
\* successive calls that meet no store error, leaves 2M stats rows attached to the row
\* of that name.
C4_StatAccumulation ==
    \A i \in 1..(Len(log) - 1) :
        (/\ log[i].body = log[i + 1].body
         /\ log[i].body \in {ReqScenario, ReqTwoStats}
         /\ log[i].clean /\ log[i + 1].clean)
            => /\ Succeeded(log[i]) /\ Succeeded(log[i + 1])
               /\ Cardinality(RowsNamed(log[i + 1].post.props, "c1")) = 1
               /\ Len(StatsOf(log[i + 1].post, "c1")) = 2 * Len(log[i].body[1].stats)

\* C5 (race-safe upsert): two concurrent calls never both take the NOT MATCHED branch
\* for the same cluster_name, there are never two rows of one name, and no call fails
\* on a duplicate insert.
C5_RaceSafeUpsert ==
    /\ \A v \in Workers : \A w \in Workers \ {v} :
        ~(/\ pc[v] = "write" /\ matched[v] = {}
          /\ pc[w] = "write" /\ matched[w] = {}
          /\ Entry(v).properties.cluster_name = Entry(w).properties.cluster_name)
    /\ \A r1 \in props : \A r2 \in props :
        r1.cluster_name = r2.cluster_name => r1.cluster_id = r2.cluster_id
    /\ \A w \in Workers : "duplicate key" \notin faults[w]

\* C6 (post-commit maintenance is best-effort): when sp_updatestats fails after the
\* commit, the call still returns success with the cluster count and the rows stay
\* committed.
C6_RefreshBestEffort ==
    \A w \in Workers :
        (Returned(w) /\ "updatestats" \in faults[w])
            => /\ result[w] = Success(Len(req[w]))
               /\ \A n \in NamesOf(req[w]) : RowsNamed(CommittedProps(props), n) # {}

\* C7 (scenario): c1 with one stat that has a timestamp and cpu_usage only, against a
\* store that raises no error: the call succeeds with count 1, there is one row c1 and
\* one stats row attached to it with cpu_usage 12.50 and the other metrics NULL.
C7_Scenario ==
    \A w \in Workers :
        (Returned(w) /\ req[w] = ReqScenario /\ faults[w] = {})
            => /\ result[w] = Success(1)
               /\ Cardinality(RowsNamed(CommittedProps(props), "c1")) = 1
               /\ LET db == Committed(props, stats)
                      mine == StatsOf(db, "c1")
                  IN /\ Len(mine) = Len(StatsOf(pre[w], "c1")) + 1
                     /\ mine[Len(mine)].cpu_usage = {1250}
                     /\ mine[Len(mine)].memory_usage = {}
                     /\ mine[Len(mine)].storage_usage = {}
                     /\ mine[Len(mine)].network_throughput = {}
                     /\ mine[Len(mine)].active_connections = {}
                     /\ mine[Len(mine)].request_count = {}
                     /\ mine[Len(mine)].response_time_ms = {}
                     /\ mine[Len(mine)].error_count = {}
                     /\ mine[Len(mine)].FreeGHz = {}

HasUnparseableTimestamp(body) ==
    \E i \in 1..Len(body) : \E j \in 1..Len(body[i].stats) :
        body[i].stats[j].timestamp = BadTimestamp

\* C8 (validation gate): a call whose body has a timestamp that is no date-time never
\* acquires a session, never begins a transaction, writes no row to either table, and
\* is answered with the validation error.
C8_ValidationGate ==
    \A w \in Workers :
        (pc[w] # "idle" /\ HasUnparseableTimestamp(req[w]))
            => /\ Returned(w)
               /\ result[w] = ValidationError
               /\ opened[w] = 0 /\ conn[w] = "none"
               /\ began[w] = 0 /\ tran[w] = 0
               /\ \A r \in props : r.by # w
               /\ \A i \in 1..Len(stats) : stats[i].by # w
               /\ Committed(props, stats) = pre[w]

\* the body with the bad timestamp was rejected while the tables held rows
C8_Witness ==
    /\ Returned(1)
    /\ req[1] = ReqBadTimestamp
    /\ result[1] = ValidationError
    /\ props # {}

\* C9 (scoped resources): whenever a call has returned, the session it acquired is
\* closed and no transaction of the call is open.
C9_ScopedResources ==
    \A w \in Workers :
        Returned(w) => (conn[w] # "open" /\ tran[w] = 0)

\* C10 (distinct failure classes): a connection failure is answered with status 503,
\* a status other than that of an import failure.
C10_DistinctFailureClasses ==
    \A w \in Workers :
        (Returned(w) /\ "connect" \in faults[w])
            => /\ result[w].status = 503
               /\ result[w].status # ImportFailed.status

\* C11 (null propagation): a stat that omits error_count, imported against a store that
\* raises no error, is stored as a row with NULL in error_count and the given value in
\* every other metric column.
C11_NullPropagation ==
    \A w \in Workers :
        (Returned(w) /\ req[w] = ReqNoErrorCount /\ faults[w] = {})
            => /\ result[w] = Success(1)
               /\ LET given == StatNoErrorCount(GoodTimestamp)
                      mine == StatsOf(Committed(props, stats), "c2")
                  IN /\ Len(mine) = Len(StatsOf(pre[w], "c2")) + 1
                     /\ mine[Len(mine)].error_count = {}
                     /\ mine[Len(mine)].cpu_usage = given.cpu_usage
                     /\ mine[Len(mine)].memory_usage = given.memory_usage
                     /\ mine[Len(mine)].storage_usage = given.storage_usage
                     /\ mine[Len(mine)].network_throughput = given.network_throughput
                     /\ mine[Len(mine)].active_connections = given.active_connections
                     /\ mine[Len(mine)].request_count = given.request_count
                     /\ mine[Len(mine)].response_time_ms = given.response_time_ms
                     /\ mine[Len(mine)].FreeGHz = given.FreeGHz

\* how often row x is in table S
Count(S, x) == Cardinality({i \in 1..Len(S) : S[i] = x})

\* C12 (stats are immutable): no step of an import, successful or failed, removes or
\* changes a committed stats row, and a committed properties row keeps its cluster_id
\* and cluster_name: only its mutable columns change.
C12_StatsImmutable ==
    [][/\ \A i \in 1..Len(CommittedStats(stats)) :
            Count(CommittedStats(stats'), CommittedStats(stats)[i])
                >= Count(CommittedStats(stats), CommittedStats(stats)[i])
       /\ \A r \in CommittedProps(props) :
            \E r2 \in CommittedProps(props') :
                r2.cluster_id = r.cluster_id /\ r2.cluster_name = r.cluster_name]_vars

\* a successful import updated the stored row of c1 and the stored stats rows are there
C12_Witness ==
    /\ Returned(1)
    /\ req[1] = ReqC1A
    /\ result[1] = Success(1)
    /\ CommittedProps(props) # pre[1].props
    /\ CommittedStats(stats) = StoredStats

\* C13 (single attempt): a call begins its transaction at most once and executes the
\* statement of each cluster entry at most once, and a call that met an error returns
\* a failure.
C13_SingleAttempt ==
    \A w \in Workers :
        /\ began[w] <= 1
        /\ \A i \in 1..Len(execd[w]) : execd[w][i] <= 1
        /\ (Returned(w) /\ faults[w] # {}) => result[w].status # 201

\* the statement of the second cluster failed after the first had been executed
C13_Witness ==
    /\ Returned(1)
    /\ "insert" \in faults[1]
    /\ began[1] = 1
    /\ execd[1] = <<1, 1>>
    /\ result[1] = ImportFailed

C15_SuccessCount ==
    \A w \in Workers :
        /\ (Returned(w) /\ result[w].status = 201)
            => /\ result[w].count = Len(req[w])
               /\ \A i \in 1..Len(req[w]) : execd[w][i] = 1
        /\ \A i \in 1..Len(execd[w]) : \A j \in (i + 1)..Len(execd[w]) :
            execd[w][j] <= execd[w][i]

C15_Witness ==
    /\ Returned(1)
    /\ result[1] = Success(2)
    /\ execd[1] = <<1, 1>>

\* C16 (failure means nothing was committed): when a call returns the import failure,
\* the committed tables are what they were when the call started.
C16_FailureNothingCommitted ==
    \A w \in Workers :
        (Returned(w) /\ result[w] = ImportFailed) => Committed(props, stats) = pre[w]

NoStats(body) == \A i \in 1..Len(body) : body[i].stats = <<>>

\* C18 (empty inputs): against a store that raises no error, a request without clusters
\* begins a transaction, writes nothing and returns success with count 0, and a
\* request whose entries have no stats returns success, leaves one row per name with
\* the values of the request and adds no stats row.
C18_EmptyInputs ==
    \A w \in Workers :
        (Returned(w) /\ faults[w] = {} /\ NoStats(req[w]))
            => /\ result[w] = Success(Len(req[w]))
               /\ began[w] = 1 /\ tran[w] = 0
               /\ (req[w] = ReqEmpty => Committed(props, stats) = pre[w])
               /\ \A n \in NamesOf(req[w]) :
                    \E r \in CommittedProps(props) :
                        /\ RowsNamed(CommittedProps(props), n) = {r}
                        /\ HoldsValues(r, LastEntry(req[w], n).properties)
               /\ CommittedStats(stats) = pre[w].stats

\* the empty request returned success after an entry without stats had been imported
C18_Witness ==
    /\ Returned(1)
    /\ req[1] = ReqEmpty
    /\ result[1] = Success(0)
    /\ began[1] = 1
    /\ Len(log) = 1
    /\ log[1].body = ReqC1A /\ Succeeded(log[1])
    /\ CommittedProps(props) # {}

\* C19 (health probe): no step of the probe changes a table; a probe that has returned
\* answered healthy exactly when the connection and the query succeeded and 503
\* otherwise, and the session it opened is closed.
C19_HealthProbe ==
    /\ [][\A w \in Workers :
            (pc[w] \in ProbePcs /\ pc'[w] # pc[w]) => UNCHANGED <<props, stats, nextId>>]_vars
    /\ [](\A w \in Workers :
            pc[w] = "probe done"
                => /\ result[w] = Healthy <=> faults[w] = {}
                   /\ faults[w] # {} => result[w] = Unhealthy
                   /\ conn[w] # "open")

====
